---- MODULE Spec2Model ----
(***************************************************************************)
(* The Grand Tree: the App orchestrator (src/App.tsx), the HandController  *)
(* signal source (src/unnamed/part_001), the GrandTree progress integrator *)
(* card binding, scene generation and FloatingItem animator               *)
(* (src/unnamed/part_002, current version, lines 246-488), the CameraRig   *)
(* (src/App.tsx) and the greeting provider (src/unnamed/part_005, current  *)
(* version, lines 1-62).                                                   *)
(*                                                                         *)
(* The scene.  The 4500 needles, 150 ornaments and 16 cards are generated  *)
(* and animated one like the other, each from its own random draws: the    *)
(* model carries one needle, one ornament and one card.                    *)
(*                                                                         *)
(* Numbers.  JavaScript numbers are modelled in fixed point: a real v is   *)
(* the integer v * SCALE, and a product is rounded down to the next        *)
(* multiple of 1/SCALE.  Time is counted in ticks of 1/60 second.  With    *)
(* the frame times of FrameDTs (blend factors that are multiples of 1/4)   *)
(* every value is exact for the first five frames of a run.                *)
(***************************************************************************)
EXTENDS Integers, Sequences, FiniteSets, TLC

VARIABLES
    unleashed,            \* App: useState(false)
    cameraDelta,          \* App: useState({x: 0, y: 0})
    greetings,            \* App: useState<string[]>([]), a JavaScript value
    hasCameraPermission,  \* App: useState(false)
    useMouseFallback,     \* App: useState(false)
    camCheck,             \* checkCamera(): "pending" until getUserMedia settles
    greetCall,            \* generateLuxuryGreetings(): "pending" until it resolves
    progress,             \* GrandTree: currentProgress.current
    uProgress,            \* GrandTree: materialRef.current.uProgress
    cardTexts,            \* GrandTree: the text prop of each rendered LuxuryCard
    lastSignal,           \* history: the last sample a signal source delivered
    greetOutcome,         \* history: what the provider call did
    frames,               \* history: render frames so far
    lastDt,               \* history: the delta of the last render frame
    runStart,             \* history: progress when the current constant-target run began
    runTarget,            \* history: the target of that run
    runElapsed,           \* history: the time the run's frames add up to
    needle,               \* GrandTree useMemo: positions, chaosPositions, randoms of a needle
    itemData,             \* GrandTree useMemo: ornamentData[i] and cardData[i]
    itemPos,              \* FloatingItem: ref.current.position of each item
    itemRot,              \* FloatingItem: ref.current.rotation of each item
    camera,               \* state.camera.position (x and y; z stays 24)
    groupRotationY,       \* GrandTree: groupRef.current.rotation.y
    clock,                \* state.clock.elapsedTime, in ticks
    uTime,                \* GrandTree: materialRef.current.uTime, in ticks
    itemT,                \* history: the progressRef.current the items read in the last frame
    smoothT,              \* history: the smoothT the items computed in the last frame
    oscillated,           \* history: the last frame took the items' t > 0.9 branch
    mounted,              \* the view is mounted (not torn down)
    intervals             \* HandController: the setInterval timers that are running

vars == <<unleashed, cameraDelta, greetings, hasCameraPermission, useMouseFallback,
          camCheck, greetCall, progress, uProgress, cardTexts, lastSignal,
          greetOutcome, frames, lastDt, runStart, runTarget, runElapsed,
          needle, itemData, itemPos, itemRot, camera, groupRotationY, clock, uTime,
          itemT, smoothT, oscillated, mounted, intervals>>

appVars == <<unleashed, cameraDelta, greetings, hasCameraPermission, useMouseFallback,
             camCheck, greetCall, cardTexts, lastSignal, greetOutcome>>

runVars == <<frames, runStart, runTarget, runElapsed>>

\* what useMemo generated at scene construction
geometryVars == <<needle, itemData>>

\* what the useFrame callbacks of CameraRig and FloatingItem write
rigVars == <<itemPos, itemRot, camera, itemT, smoothT, oscillated>>

\* what the useFrame callback of GrandTree writes besides the progress
treeVars == <<groupRotationY, clock, uTime>>

viewVars == <<mounted, intervals>>

\* a polling timer of the HandController is running
timerArmed == intervals.current + intervals.stale > 0

-----------------------------------------------------------------------------
(* Fixed point *)

SCALE == 5 * (2 ^ 10)

TicksPerSecond == 2 * 30

Abs(x) == IF x < 0 THEN -x ELSE x

\* THREE.MathUtils.lerp(x, y, t) = (1 - t) * x + t * y
Lerp(x, y, t) == ((SCALE - t) * x + t * y) \div SCALE

\* a * b, rounded down; exact for |b| below 80
Mul(a, b) == (a \div SCALE) * b + ((a % SCALE) * b) \div SCALE

\* (1 - t) * x + t * y for the wider values of positions and angles
LerpWide(x, y, t) == Mul(x, SCALE - t) + Mul(y, t)

Pi == (SCALE * 355) \div 113

TwoPi == 2 * Pi

HalfPi == Pi \div 2

\* Math.sin on [0, pi/2]: a - a^3/3! + a^5/5! - a^7/7! + a^9/9!
SinSeries(a) ==
    LET a2 == Mul(a, a)
        t4 == SCALE - a2 \div 72
        t3 == SCALE - Mul(a2 \div 42, t4)
        t2 == SCALE - Mul(a2 \div 20, t3)
        t1 == SCALE - Mul(a2 \div 6, t2)
    IN Mul(a, t1)

\* Math.sin, to within 4 / SCALE
Sin(a) ==
    LET r == a % TwoPi
    IN IF r <= HalfPi THEN SinSeries(r)
       ELSE IF r <= Pi THEN SinSeries(Pi - r)
       ELSE IF r <= Pi + HalfPi THEN -SinSeries(r - Pi)
       ELSE -SinSeries(TwoPi - r)

\* Math.cos
Cos(a) == Sin(a + HalfPi)

\* new THREE.Vector3(x, y, z), new THREE.Euler(x, y, z)
Vec(x, y, z) == [x |-> x, y |-> y, z |-> z]

Origin == Vec(0, 0, 0)

-----------------------------------------------------------------------------
(* Bounds *)

MaxFrames == 3

MaxScenarioFrames == 50

MaxGreetLen == 5

\* Frame times in ticks: 0, 1/6 s, 1 s.
FrameDTs == {0, 10, 60}

\* Frame times of a run that goes on for ever: 1/60 s (60 fps) to 4/3 s.
ConvergeDTs == {1, 6, 10, 40, 60, 80}

ConvergeStarts == {0, SCALE \div 4, SCALE \div 2, SCALE}

\* Frame times of the scene alone: those, and 2/3 s, which takes the progress
\* to its target in one frame.
SceneDTs == FrameDTs \cup {40}

\* dt = 0.1 s
ScenarioDt == TicksPerSecond \div 10

-----------------------------------------------------------------------------
(* GrandTree: the progress integrator *)

\* isFormed={!unleashed}
isFormed == ~unleashed

\* const target = isFormed ? 1 : 0
TargetOf(formed) == IF formed THEN SCALE ELSE 0

Target == TargetOf(isFormed)

\* delta * 1.5, with delta = dt / 60 seconds
BlendFactorSlow(dt) == (dt * 3 * SCALE) \div (20 * TicksPerSecond)

BlendFactor(dt) == (dt * 3 * SCALE) \div (2 * TicksPerSecond)

\* THREE.MathUtils.lerp(currentProgress.current, target, delta * 1.5)
IntegratorStep(value, target, dt) == Lerp(value, target, BlendFactor(dt))

\* useFrame((state, delta) => ...), with materialRef.current mounted: the
\* progress and the uProgress uniform
Frame(dt) ==
    /\ progress' = IntegratorStep(progress, Target, dt)
    /\ uProgress' = progress'
    /\ lastDt' = dt
    /\ UNCHANGED appVars

\* delta, in seconds
Seconds(dt) == (dt * SCALE) \div TicksPerSecond

\* the same callback: the uTime uniform, and
\* groupRef.current.rotation.y += delta * 0.05 * currentProgress.current
TreeFrame(dt, elapsed) ==
    /\ uTime' = elapsed
    /\ groupRotationY' = groupRotationY + Mul(Mul(Seconds(dt), SCALE \div 20), progress')

-----------------------------------------------------------------------------
(* JavaScript values: what JSON.parse can return, and undefined / NaN *)

Undef == [t |-> "undefined"]

NaN == [t |-> "NaN"]

Null == [t |-> "null"]

Obj == [t |-> "object"]

Num(n) == [t |-> "number", n |-> n]

Str(s) == [t |-> "string", s |-> s]

\* The characters of a string, for the strings whose length or characters the
\* program reads: the responses that are a bare string.
Chars(s) ==
    CASE s = "" -> <<>>
      [] s = "G" -> <<"G">>
      [] s = "O" -> <<"O">>
      [] s = "GO" -> <<"G", "O">>

List(items) == [t |-> "array", items |-> items]

\* v.length (v neither null nor undefined)
JsLength(v) ==
    CASE v.t = "array" -> Num(Len(v.items))
      [] v.t = "string" -> Num(Len(Chars(v.s)))
      [] OTHER -> Undef

\* i % len
JsMod(i, len) == IF len.t = "number" /\ len.n # 0 THEN Num(i % len.n) ELSE NaN

\* v[k]
JsIndex(v, k) ==
    CASE k.t # "number" -> Undef
      [] v.t = "array" /\ k.n < Len(v.items) -> v.items[k.n + 1]
      [] v.t = "string" /\ k.n < Len(Chars(v.s)) -> Str(Chars(v.s)[k.n + 1])
      [] OTHER -> Undef

\* the truthiness of v, as || tests it
Truthy(v) ==
    CASE v.t = "number" -> v.n # 0
      [] v.t = "string" -> v.s # ""
      [] v.t \in {"array", "object"} -> TRUE
      [] OTHER -> FALSE

\* len > 0
GreaterThanZero(len) == len.t = "number" /\ len.n > 0

IsString(v) == v.t = "string"

IsStringList(v) == v.t = "array" /\ \A k \in 1..Len(v.items) : IsString(v.items[k])

-----------------------------------------------------------------------------
(* GrandTree: the greeting bound to each card *)

CARD_COUNT == 16

Cards == 0..(CARD_COUNT - 1)

\* the literal "LUXURY"
Fallback == Str("LUXURY")

CardTextNoFallback(g, i) == JsIndex(g, JsMod(i, JsLength(g)))

CardTextNoWrap(g, i) ==
    LET e == JsIndex(g, Num(i)) IN IF Truthy(e) THEN e ELSE Fallback

\* greetings[i % greetings.length] || "LUXURY"
CardText(g, i) ==
    LET e == JsIndex(g, JsMod(i, JsLength(g))) IN IF Truthy(e) THEN e ELSE Fallback

\* cardData.map((data, i) => ... <LuxuryCard text={...} />)
RenderCards(g) == [i \in Cards |-> CardText(g, i)]

-----------------------------------------------------------------------------
(* GrandTree: the geometry useMemo generates at scene construction *)

TREE_HEIGHT == 18

TREE_RADIUS == 7

\* the radius of a cylinder instead of a cone
RadiusAtYNoTaper(y) == TREE_RADIUS * SCALE

\* (1 - y / TREE_HEIGHT) * TREE_RADIUS
RadiusAtY(y) == (SCALE - y \div TREE_HEIGHT) * TREE_RADIUS

\* y - TREE_HEIGHT / 2 + 2
Raise(y) == y - (TREE_HEIGHT * SCALE) \div 2 + 2 * SCALE

\* (Math.random() - 0.5) * width
Spread(rnd, width) == (rnd - SCALE \div 2) * width

\* new THREE.Vector3(.., .., ..) of three draws spread over width
Cloud(d, width) == Vec(Spread(d.cx, width), Spread(d.cy, width), Spread(d.cz, width))

\* One needle, from its seven draws of Math.random(): y, angle, r, the three
\* of the chaos position, and the random phase.
Needle(d) ==
    LET y == d.y * TREE_HEIGHT
        radiusAtY == RadiusAtY(y)
        angle == Mul(d.angle, TwoPi)
        r == Mul(d.r, radiusAtY)
    IN [target |-> Vec(Mul(r, Cos(angle)), Raise(y), Mul(r, Sin(angle))),
        chaos |-> Cloud(d, 35),
        random |-> d.rnd]

\* finalRotation of an item that has none (an ornament)
NoRotation == [none |-> TRUE]

\* One ornament (oData.push), on the cone shrunk to 0.95 of its radius.
Ornament(d) ==
    LET y == d.y * TREE_HEIGHT
        radiusAtY == Mul(RadiusAtY(y), (95 * SCALE) \div 100)
        angle == Mul(d.angle, TwoPi)
    IN [target |-> Vec(Mul(radiusAtY, Cos(angle)), Raise(y), Mul(radiusAtY, Sin(angle))),
        chaos |-> Cloud(d, 40),
        finalRotation |-> NoRotation]

\* Card i (cData.push): a spiral around the cone at 1.2 of its radius.
Card(i, d) ==
    LET y == Mul(((i * SCALE) \div CARD_COUNT) * TREE_HEIGHT, (7 * SCALE) \div 10) + 2 * SCALE
        radiusAtY == Mul(RadiusAtY(y), (12 * SCALE) \div 10)
        angle == (i * 24 * SCALE) \div 10
    IN [target |-> Vec(Mul(radiusAtY, Cos(angle)), Raise(y), Mul(radiusAtY, Sin(angle))),
        chaos |-> Cloud(d, 50),
        finalRotation |-> Vec(0, (-angle) + HalfPi, 0)]

Items == {"ornament", "card"}

-----------------------------------------------------------------------------
(* FloatingItem: the per-frame transform of an ornament or a card *)

\* Math.pow(u, 3)
Pow3(u) == Mul(Mul(u, u), u)

\* the cube without the "1 -"
SmoothTNoComplement(t) == Pow3(SCALE - t)

\* const smoothT = 1 - Math.pow(1 - t, 3)
SmoothT(t) == SCALE - Pow3(SCALE - t)

\* position.lerpVectors(v1, v2, alpha): v1 + (v2 - v1) * alpha
LerpVectors(v1, v2, alpha) ==
    Vec(v1.x + Mul(v2.x - v1.x, alpha),
        v1.y + Mul(v2.y - v1.y, alpha),
        v1.z + Mul(v2.z - v1.z, alpha))

\* t > 0.9
Wobbles(t) == t * 10 > 9 * SCALE

\* Math.sin(state.clock.elapsedTime * 2 + chaos.x) * 0.002
Oscillation(elapsed, chaos) ==
    Mul(Sin((elapsed * 2 * SCALE) \div TicksPerSecond + chaos.x), (2 * SCALE) \div 1000)

\* the oscillation in every frame, whatever t
ItemPositionAlwaysWobbling(d, t, elapsed) ==
    LET p == LerpVectors(d.chaos, d.target, SmoothT(t))
    IN [p EXCEPT !.y = @ + Oscillation(elapsed, d.chaos)]

\* position.lerp(target, smoothT): from where the item is, not from chaos
ItemPositionFromCurrent(d, t, elapsed) ==
    LET k == CHOOSE j \in Items : itemData[j] = d
        p == LerpVectors(itemPos[k], d.target, SmoothT(t))
    IN IF Wobbles(t) THEN [p EXCEPT !.y = @ + Oscillation(elapsed, d.chaos)] ELSE p

\* the position an item gets in a frame that reads progress t at clock time elapsed
ItemPosition(d, t, elapsed) ==
    LET p == LerpVectors(d.chaos, d.target, SmoothT(t))
    IN IF Wobbles(t) THEN [p EXCEPT !.y = @ + Oscillation(elapsed, d.chaos)] ELSE p

\* chaos.x * 0.1, chaos.y * 0.1, chaos.z * 0.1
InitialOrientation(chaos) ==
    Vec(Mul(chaos.x, SCALE \div 10), Mul(chaos.y, SCALE \div 10), Mul(chaos.z, SCALE \div 10))

\* the interpolation started from the rotation the item has, not from chaos * 0.1
ItemRotationFromCurrent(d, t, old) ==
    IF d.finalRotation = NoRotation THEN old
    ELSE LET to == d.finalRotation
             s == SmoothT(t)
         IN Vec(LerpWide(old.x, to.x, s), LerpWide(old.y, to.y, s), LerpWide(old.z, to.z, s))

\* if (finalRotation) rotation.set(lerp(chaos.x * 0.1, finalRotation.x, smoothT), ...)
ItemRotation(d, t, old) ==
    IF d.finalRotation = NoRotation THEN old
    ELSE LET from == InitialOrientation(d.chaos)
             to == d.finalRotation
             s == SmoothT(t)
         IN Vec(LerpWide(from.x, to.x, s), LerpWide(from.y, to.y, s), LerpWide(from.z, to.z, s))

\* The useFrame callback of every FloatingItem, at clock time elapsed.  The
\* items subscribe before GrandTree does (useFrame subscribes in a layout
\* effect, and a child's layout effects run before its parent's), so in a frame
\* they run first and progressRef.current still holds the value GrandTree wrote
\* in the frame before.
FloatingItemFrame(elapsed) ==
    /\ itemT' = progress
    /\ smoothT' = SmoothT(progress)
    /\ oscillated' = Wobbles(progress)
    /\ itemPos' = [k \in Items |-> ItemPosition(itemData[k], progress, elapsed)]
    /\ itemRot' = [k \in Items |-> ItemRotation(itemData[k], progress, itemRot[k])]

-----------------------------------------------------------------------------
(* FoliageMaterial: the vertex shader's easing *)

\* float easeOutCubic(float x) { return 1.0 - pow(1.0 - x, 3.0); }
easeOutCubic(x) == SCALE - Pow3(SCALE - x)

-----------------------------------------------------------------------------
(* App: CameraRig *)

\* dt * 2
CameraFactor(dt) == (dt * 2 * SCALE) \div TicksPerSecond

\* const targetX = delta.x * 6; const targetY = 3 + delta.y * 4
CameraTarget(delta) == [x |-> delta.x * 6, y |-> 3 * SCALE + delta.y * 4]

\* useFrame((state, dt) => ...): camera.position.x and .y
CameraRigFrame(dt) ==
    camera' = [x |-> LerpWide(camera.x, CameraTarget(cameraDelta).x, CameraFactor(dt)),
               y |-> LerpWide(camera.y, CameraTarget(cameraDelta).y, CameraFactor(dt))]

-----------------------------------------------------------------------------
(* geminiService: generateLuxuryGreetings *)

\* const defaults = [...]
Defaults ==
    List(<<Str("GOLDEN ERA"),
           Str("PURE LUXURY"),
           Str("WINNING SEASON"),
           Str("GRAND CHRISTMAS"),
           Str("RICH & MERRY"),
           Str("SUCCESS 2025")>>)

\* What ai.models.generateContent did: it threw or rejected, or it returned a
\* response whose text is empty (undefined or ""), is not JSON, or is JSON.
NotCalled == [kind |-> "none"]

Threw == [kind |-> "throw"]

EmptyText == [kind |-> "text", form |-> "empty"]

GarbageText == [kind |-> "text", form |-> "garbage"]

JsonText(v) == [kind |-> "text", form |-> "json", value |-> v]

\* the earlier version's answers (part_005 lines 63-102): one list per path
generateLuxuryGreetingsPerPath(apiKey, out) ==
    IF ~apiKey THEN Defaults
    ELSE IF out.kind = "throw" THEN List(SubSeq(Defaults.items, 1, 4))
    ELSE IF out.form = "empty" THEN List(<<Defaults.items[1]>>)
    ELSE IF out.form = "garbage" THEN Defaults
    ELSE out.value

generateLuxuryGreetings(apiKey, out) ==
    IF ~apiKey THEN Defaults                         \* if (!API_KEY) return defaults
    ELSE IF out.kind = "throw" THEN Defaults         \* catch (error)
    ELSE IF out.form = "empty" THEN Defaults         \* if (!text) return defaults
    ELSE IF out.form = "garbage" THEN Defaults       \* JSON.parse throws: catch
    ELSE LET result == out.value IN
         IF result.t \in {"null", "undefined"} THEN Defaults  \* result.length throws: catch
         ELSE IF GreaterThanZero(JsLength(result)) THEN result ELSE Defaults

-----------------------------------------------------------------------------
(* HandController: processFrame *)

CanvasWidth == 100

CanvasHeight == 75

PixelThreshold == 200

\* A camera frame: video.readyState === 4 or not, and the skin-coloured pixels,
\* here a solid block of columns x0..x1 and rows y0..y1 (none when x1 < x0).
Blob(x0, x1, y0, y1) == [ready |-> TRUE, x0 |-> x0, x1 |-> x1, y0 |-> y0, y1 |-> y1]

NotReady == [ready |-> FALSE, x0 |-> 0, x1 |-> -1, y0 |-> 0, y1 |-> -1]

NoSkin == Blob(0, -1, 0, -1)

PixelCount(f) == IF f.x1 < f.x0 THEN 0 ELSE (f.x1 - f.x0 + 1) * (f.y1 - f.y0 + 1)

XSum(f) == (f.y1 - f.y0 + 1) * (((f.x0 + f.x1) * (f.x1 - f.x0 + 1)) \div 2)

YSum(f) == (f.x1 - f.x0 + 1) * (((f.y0 + f.y1) * (f.y1 - f.y0 + 1)) \div 2)

\* (xSum / pixelCount) / canvas.width
CenterX(f) == (XSum(f) * SCALE) \div (PixelCount(f) * CanvasWidth)

CenterY(f) == (YSum(f) * SCALE) \div (PixelCount(f) * CanvasHeight)

\* onCameraMove((centerX - 0.5) * -2, (centerY - 0.5) * 2)
HandOffset(f) == [x |-> (-2) * (CenterX(f) - SCALE \div 2), y |-> 2 * (CenterY(f) - SCALE \div 2)]

\* boxAreaPercent > 0.15
BoxIsLarge(f) ==
    LET width == f.x1 - f.x0
        height == f.y1 - f.y0
        area == width * height
    IN area * 100 > 15 * (CanvasWidth * CanvasHeight)

HandDetected(f) == PixelCount(f) > PixelThreshold

DetectUnleashNoDefault(f) == IF HandDetected(f) THEN BoxIsLarge(f) ELSE TRUE

\* the argument of onUnleashChange
DetectUnleash(f) == IF HandDetected(f) THEN BoxIsLarge(f) ELSE FALSE

-----------------------------------------------------------------------------
(* Inputs *)

\* Camera frames: video not ready; no skin pixel; 200 skin pixels (the noise
\* threshold itself); a fist in the middle (441 pixels, box 20 x 20); an open
\* hand at the top left (2000 pixels, box 49 x 39).
HandFrames == {NotReady, NoSkin, Blob(0, 19, 0, 9), Blob(40, 60, 27, 47), Blob(0, 49, 0, 39)}

OpenHand == Blob(0, 49, 0, 39)

\* Values of Math.random(), which is below 1: 0, 1/4, 1/2, the largest.
Randoms == {0, SCALE \div 4, SCALE \div 2, SCALE - 1}

\* The draws of one particle or item.
Draw(y, angle, r, cx, cy, cz, rnd) ==
    [y |-> y, angle |-> angle, r |-> r, cx |-> cx, cy |-> cy, cz |-> cz, rnd |-> rnd]

\* One scene's draws: a needle at half height on the rim of the cone, an
\* ornament near the top, a card.
SomeDraws ==
    [needle |-> Draw(SCALE \div 2, SCALE \div 4, SCALE - 1, 0, SCALE \div 2, SCALE - 1, SCALE \div 4),
     ornament |-> Draw(SCALE - 1, SCALE \div 2, 0, SCALE \div 4, 0, SCALE \div 2, 0),
     card |-> Draw(0, 0, 0, SCALE - 1, SCALE \div 4, 0, 0)]

\* Scenes: every needle, ornament and card drawn at the heights, angles and
\* radii of Randoms (and two more angles), with two chaos positions.
SceneDraws ==
    {[needle |-> d, ornament |-> d, card |-> d] :
        d \in {Draw(y, angle, r, c[1], c[2], c[3], r) :
                  y \in Randoms,
                  angle \in Randoms \cup {SCALE \div 8, (5 * SCALE) \div 8},
                  r \in Randoms,
                  c \in {<<0, SCALE \div 2, SCALE - 1>>, <<SCALE - 1, SCALE \div 4, 0>>}}}

\* The cards that stand for the 16: the first, one in the middle, the last.
SceneCards == {0, 7, CARD_COUNT - 1}

\* Pointer positions clientX / innerWidth and clientY / innerHeight: 1/2, 1.
MouseFracs == {SCALE \div 2, SCALE}

\* Provider responses: well-formed lists (one with an empty string, one of five
\* strings) and malformed ones.
A == Str("A")

B == Str("B")

Empty == Str("")

Outcomes ==
    {Threw, EmptyText, GarbageText,
     JsonText(Null), JsonText(Num(7)), JsonText(Obj), JsonText(Str("GO")),
     JsonText(List(<<>>)), JsonText(List(<<Num(1), Num(0)>>)),
     JsonText(List(<<A>>)), JsonText(List(<<A, Empty, B>>)),
     JsonText(List(<<A, B, A, B, A>>))}

ProviderCalls ==
    {[key |-> FALSE, out |-> NotCalled]} \cup {[key |-> TRUE, out |-> o] : o \in Outcomes}

\* Every list of 1..MaxGreetLen strings over "", "A", "B".
StringLists == UNION {[1..n -> {Empty, A, B}] : n \in 1..MaxGreetLen}

ListCalls == {[key |-> TRUE, out |-> JsonText(List(items))] : items \in StringLists}

-----------------------------------------------------------------------------
(* App *)

\* The polling timers of the HandController: how many run the processFrame of
\* the latest render, how many an earlier one.
NoTimers == [current |-> 0, stale |-> 0]

\* const interval = setInterval(processFrame, 100)
SetInterval(ts) == [ts EXCEPT !.current = @ + 1]

\* the effect's cleanup, clearInterval(interval): the timer this effect started
ClearInterval(ts) == [ts EXCEPT !.current = IF @ > 0 THEN @ - 1 ELSE 0]

\* useCallback(..., [onUnleashChange, onCameraMove]) after a render of App:
\* processFrame is a new function, a timer still running holds the old one
Recreated(ts) == [current |-> 0, stale |-> ts.stale + ts.current]

\* an effect with no cleanup: the new timer is started beside the old one
EffectRerunNoCleanup(ts) == SetInterval(Recreated(ts))

\* useEffect(..., [processFrame]) when processFrame changed: the cleanup of the
\* previous run, then the effect again with the new processFrame
EffectRerun(ts) == SetInterval(Recreated(ClearInterval(ts)))

\* The state after construction, or (for the runs of SpecConverge and
\* SpecScenario) a state the scene is in when a run begins: the progress at p,
\* and, when u, an open hand seen by the camera.
Start(p, u, dt) ==
    /\ unleashed = u
    /\ cameraDelta = IF u THEN HandOffset(OpenHand) ELSE [x |-> 0, y |-> 0]
    /\ greetings = List(<<>>)
    /\ hasCameraPermission = u
    /\ useMouseFallback = FALSE
    /\ camCheck = IF u THEN "done" ELSE "pending"
    /\ greetCall = "pending"
    /\ progress = p
    /\ uProgress = p
    /\ cardTexts = RenderCards(List(<<>>))
    /\ lastSignal = IF u THEN "open" ELSE "none"
    /\ greetOutcome = [key |-> FALSE, out |-> NotCalled]
    /\ frames = 0
    /\ lastDt = dt
    /\ runStart = p
    /\ runTarget = TargetOf(~u)
    /\ runElapsed = 0
    /\ mounted = TRUE
    /\ intervals = IF u THEN SetInterval(NoTimers) ELSE NoTimers

\* The scene after construction: the geometry useMemo generated from the draws
\* d (card i stands for the cards), every item at the origin where its group
\* is created, the camera where <PerspectiveCamera position={[0, 4, 24]}> puts it.
Construct(d, i) ==
    /\ needle = Needle(d.needle)
    /\ itemData = [k \in Items |-> IF k = "card" THEN Card(i, d.card) ELSE Ornament(d.ornament)]
    /\ itemPos = [k \in Items |-> Origin]
    /\ itemRot = [k \in Items |-> Origin]
    /\ camera = [x |-> 0, y |-> 4 * SCALE]
    /\ groupRotationY = 0
    /\ clock = 0
    /\ uTime = 0
    /\ itemT = 0
    /\ smoothT = 0
    /\ oscillated = FALSE

Init == Start(0, FALSE, 0) /\ Construct(SomeDraws, 7)

frameVars == <<progress, uProgress, lastDt, frames, runStart, runTarget, runElapsed,
               rigVars, treeVars>>

\* checkCamera: getUserMedia resolved, setHasCameraPermission(true)
CameraGranted ==
    /\ mounted
    /\ camCheck = "pending"
    /\ camCheck' = "done"
    /\ hasCameraPermission' = TRUE
    /\ cardTexts' = RenderCards(greetings)
    /\ intervals' = IF hasCameraPermission' /\ ~useMouseFallback
                    THEN SetInterval(intervals)
                    ELSE intervals
    /\ UNCHANGED <<unleashed, cameraDelta, greetings, useMouseFallback, greetCall,
                   lastSignal, greetOutcome, frameVars, geometryVars, mounted>>

\* checkCamera: getUserMedia rejected, setUseMouseFallback(true)
CameraDenied ==
    /\ mounted
    /\ camCheck = "pending"
    /\ camCheck' = "done"
    /\ useMouseFallback' = TRUE
    /\ cardTexts' = RenderCards(greetings)
    /\ UNCHANGED <<unleashed, cameraDelta, greetings, hasCameraPermission, greetCall,
                   lastSignal, greetOutcome, frameVars, geometryVars, viewVars>>

\* {hasCameraPermission && !useMouseFallback && <HandController ... />}
HandControllerMounted == hasCameraPermission /\ ~useMouseFallback

\* generateLuxuryGreetings().then(setGreetings), and the render that follows:
\* App renders again, so a mounted HandController gets a new onCameraMove and
\* its effect runs again.
GreetingsResolve(call) ==
    /\ mounted
    /\ greetCall = "pending"
    /\ greetCall' = "done"
    /\ greetings' = generateLuxuryGreetings(call.key, call.out)
    /\ greetOutcome' = call
    /\ cardTexts' = RenderCards(greetings')
    /\ intervals' = IF HandControllerMounted THEN EffectRerun(intervals) ELSE intervals
    /\ UNCHANGED <<unleashed, cameraDelta, hasCameraPermission, useMouseFallback,
                   camCheck, lastSignal, frameVars, geometryVars, mounted>>

\* setInterval(processFrame, 100): one tick of a polling timer.  A timer runs
\* from the effect that started it until that effect's cleanup; on a tick that
\* finds webcamRef.current null, as after the unmount, processFrame returns at
\* once.  A sample that changes the App's state (setCameraDelta with a new
\* object, setUnleashed with another value) makes App render again, and the
\* HandController's effect with it.
ProcessFrame(f) ==
    /\ timerArmed
    /\ IF ~f.ready \/ ~(mounted /\ HandControllerMounted)
       THEN UNCHANGED <<unleashed, cameraDelta, lastSignal, cardTexts, intervals>>
       ELSE /\ cameraDelta' = IF HandDetected(f) THEN HandOffset(f) ELSE cameraDelta
            /\ unleashed' = DetectUnleash(f)
            /\ lastSignal' = IF ~HandDetected(f) THEN "nohand"
                             ELSE IF BoxIsLarge(f) THEN "open" ELSE "fist"
            /\ cardTexts' = RenderCards(greetings)
            /\ intervals' = IF HandDetected(f) \/ unleashed' # unleashed
                            THEN EffectRerun(intervals)
                            ELSE intervals
    /\ UNCHANGED <<greetings, hasCameraPermission, useMouseFallback, camCheck,
                   greetCall, greetOutcome, frameVars, geometryVars, mounted>>

\* dist > 0.6, with dist = Math.sqrt(x*x + y*y)
FarFromCentre(x, y) == x * x + y * y > (36 * SCALE * SCALE) \div 100

\* handleMouseMove without its first line, if (!useMouseFallback) return
MouseMoveUnguarded(fx, fy) ==
    /\ mounted
    /\ LET x == fx * 2 - SCALE
           y == (-(fy * 2)) + SCALE
       IN /\ cameraDelta' = [x |-> x, y |-> y]
          /\ unleashed' = FarFromCentre(x, y)
          /\ lastSignal' = "mouse"
          /\ cardTexts' = RenderCards(greetings)
    /\ UNCHANGED <<greetings, hasCameraPermission, useMouseFallback, camCheck,
                   greetCall, greetOutcome, frameVars, geometryVars, viewVars>>

\* handleMouseMove that also sets the progress to its new target
MouseMoveSnap(fx, fy) ==
    /\ mounted
    /\ useMouseFallback
    /\ LET x == fx * 2 - SCALE
           y == (-(fy * 2)) + SCALE
       IN /\ cameraDelta' = [x |-> x, y |-> y]
          /\ unleashed' = FarFromCentre(x, y)
          /\ lastSignal' = "mouse"
          /\ cardTexts' = RenderCards(greetings)
          /\ progress' = TargetOf(~unleashed')
    /\ UNCHANGED <<greetings, hasCameraPermission, useMouseFallback, camCheck,
                   greetCall, greetOutcome, uProgress, lastDt, runVars, rigVars,
                   treeVars, geometryVars, viewVars>>

\* handleMouseMove, the pointer at (fx, fy) of the window
MouseMove(fx, fy) ==
    /\ mounted
    /\ IF ~useMouseFallback
       THEN UNCHANGED <<unleashed, cameraDelta, lastSignal, cardTexts>>
       ELSE LET x == fx * 2 - SCALE
                y == (-(fy * 2)) + SCALE
            IN /\ cameraDelta' = [x |-> x, y |-> y]
               /\ unleashed' = FarFromCentre(x, y)
               /\ lastSignal' = "mouse"
               /\ cardTexts' = RenderCards(greetings)
    /\ UNCHANGED <<greetings, hasCameraPermission, useMouseFallback, camCheck,
                   greetCall, greetOutcome, frameVars, geometryVars, viewVars>>

\* The view is torn down: the cleanup of the HandController's effect,
\* return () => clearInterval(interval); the render loop stops with the Canvas.
UnmountLeaky ==
    /\ mounted
    /\ mounted' = FALSE
    /\ UNCHANGED <<appVars, frameVars, geometryVars, intervals>>

Unmount ==
    /\ mounted
    /\ mounted' = FALSE
    /\ intervals' = ClearInterval(intervals)
    /\ UNCHANGED <<appVars, frameVars, geometryVars>>

\* a frame whose items interpolate in place, chaos.lerp(target, smoothT)
RenderFrameInPlace(dt) ==
    /\ mounted
    /\ clock' = clock + dt
    /\ CameraRigFrame(dt)
    /\ FloatingItemFrame(clock')
    /\ Frame(dt)
    /\ TreeFrame(dt, clock')
    /\ itemData' = [k \in Items |-> [itemData[k] EXCEPT !.chaos = itemPos'[k]]]
    /\ UNCHANGED <<needle, viewVars>>

\* One rendered frame of dt: the clock moves on, then the useFrame callbacks
\* run in the order they subscribed: CameraRig, the FloatingItems, GrandTree.
RenderFrame(dt) ==
    /\ mounted
    /\ clock' = clock + dt
    /\ CameraRigFrame(dt)
    /\ FloatingItemFrame(clock')
    /\ Frame(dt)
    /\ TreeFrame(dt, clock')
    /\ UNCHANGED <<geometryVars, viewVars>>

\* A render frame, with the run it belongs to: the frames since the target
\* last changed.
RunFrame(dt) ==
    /\ RenderFrame(dt)
    /\ frames' = frames + 1
    /\ IF Target = runTarget
       THEN /\ runElapsed' = runElapsed + dt
            /\ UNCHANGED <<runStart, runTarget>>
       ELSE /\ runStart' = progress
            /\ runTarget' = Target
            /\ runElapsed' = dt

Tick(dt) == frames < MaxFrames /\ RunFrame(dt)

Next ==
    \/ CameraGranted
    \/ CameraDenied
    \/ \E call \in ProviderCalls : GreetingsResolve(call)
    \/ \E f \in HandFrames : ProcessFrame(f)
    \/ \E fx \in MouseFracs, fy \in MouseFracs : MouseMove(fx, fy)
    \/ \E dt \in FrameDTs : Tick(dt)
    \/ Unmount

Spec == Init /\ [][Next]_vars

\* The cards alone: the provider answers with any list of strings.
NextCards == \E call \in ListCalls : GreetingsResolve(call)

SpecCards == Init /\ [][NextCards]_vars

\* The scene alone: any of the scenes, and render frames.
SceneInit ==
    /\ \E u \in BOOLEAN : Start(0, u, 0)
    /\ \E d \in SceneDraws, i \in SceneCards : Construct(d, i)

SceneNext == \E dt \in SceneDTs : Tick(dt)

SpecScene == SceneInit /\ [][SceneNext]_vars

\* A run at one frame time and one target that goes on for ever.
ConvergeInit ==
    /\ \E p \in ConvergeStarts, u \in BOOLEAN, dt \in ConvergeDTs : Start(p, u, dt)
    /\ Construct(SomeDraws, 7)

\* The integrator's part of the frame, for ever: the clock, the group's
\* rotation and the camera, which grow without bound and which the progress
\* never reads, stay as they are.
ConvergeFrame ==
    /\ Frame(lastDt)
    /\ UNCHANGED <<runVars, geometryVars, rigVars, treeVars, viewVars>>

SpecConverge == ConvergeInit /\ [][ConvergeFrame]_vars /\ WF_vars(ConvergeFrame)

\* Frames of 0.1 s at one target.
ScenarioInit ==
    /\ \E p \in {0, SCALE}, u \in BOOLEAN : Start(p, u, ScenarioDt)
    /\ Construct(SomeDraws, 7)

ScenarioTick == frames < MaxScenarioFrames /\ RunFrame(ScenarioDt)

SpecScenario == ScenarioInit /\ [][ScenarioTick]_vars

-----------------------------------------------------------------------------
(* Claims *)

\* C1 as stated: whenever there is no valid signal (the last camera sample
\* showed no hand, camera permission was denied, or no sample has arrived since
\* startup) the formed value the integrator reads is false: its target is 0.
C1_NoSignalMeansDispersed ==
    (lastSignal = "nohand" \/ lastSignal = "none" \/ useMouseFallback) => Target = 0

\* C1 amended: whenever there is no valid signal (the last camera sample showed
\* no hand, or no sample and no mouse move has arrived since startup, camera
\* permission denied or not) the formed value the integrator reads is true: its
\* target is 1.
C1_NoSignalMeansFormed ==
    (lastSignal = "nohand" \/ lastSignal = "none") => (isFormed /\ Target = SCALE)

\* C1 witness: an open hand was sampled, then a frame without a hand.
C1_Witness ==
    /\ lastSignal = "nohand"
    /\ cameraDelta = HandOffset(OpenHand)
    /\ Target = SCALE

\* C2: in every reachable state the progress value lies in [0, 1].
C2_ProgressInUnitInterval == 0 <= progress /\ progress <= SCALE

\* C3: a frame with dt > 0 that starts at a value in [0, 1] other than the
\* target moves the value strictly toward the target and not past it.
C3_StrictlyTowardTarget ==
    [][(frames' = frames + 1 /\ lastDt' > 0
            /\ 0 <= progress /\ progress <= SCALE /\ progress # Target)
        => IF Target = SCALE
           THEN progress < progress' /\ progress' <= SCALE
           ELSE progress' < progress /\ progress' >= 0]_vars

\* |value - target| <= 0.01
WithinEpsilon == Abs(progress - Target) <= SCALE \div 100

\* C4: with one target and one dt > 0, and frames that keep running, the value
\* comes within 0.01 of the target and stays there.
C4_ConvergesAndStays == <>[]WithinEpsilon

\* C5: the value after the frames of a run is the value one step over the
\* run's whole elapsed time gives from the run's start.
C5_FrameRateIndependent == progress = IntegratorStep(runStart, runTarget, runElapsed)

\* C6: from value 0 with target 1, 50 frames of 0.1 s leave the value above 0.9
\* and not above 1.
C6_FiftySteps ==
    (runStart = 0 /\ runTarget = SCALE /\ frames = 50)
        => (progress * 10 > 9 * SCALE /\ progress <= SCALE)

\* C6 witness: the 50th frame of that run.
C6_Witness ==
    /\ frames = 50
    /\ runStart = 0
    /\ runTarget = SCALE
    /\ lastDt = ScenarioDt
    /\ progress > 0

FailurePath(call) ==
    \/ ~call.key
    \/ call.out.kind = "throw"
    \/ (call.out.kind = "text" /\ call.out.form = "empty")

Malformed(out) ==
    /\ out.kind = "text"
    /\ \/ out.form = "garbage"
       \/ (out.form = "json" /\ ~IsStringList(out.value))
       \/ (out.form = "json" /\ out.value = List(<<>>))

\* C7: on every failure path (no API key, the call throwing, an empty response
\* text) the provider returns the one default list, which has at least 4 strings.
C7_FailurePathsGiveDefaults ==
    (greetCall = "done" /\ FailurePath(greetOutcome))
        => /\ greetings = Defaults
           /\ IsStringList(greetings)
           /\ Len(greetings.items) >= 4

\* C7 witness: the call threw and the cards show the defaults.
C7_Witness ==
    /\ greetCall = "done"
    /\ greetOutcome.key
    /\ greetOutcome.out = Threw
    /\ cardTexts[0] = Defaults.items[1]

\* C8: for every malformed response (not JSON, JSON that is no list of strings,
\* an empty list) the provider resolves to the default list.
C8_MalformedGivesDefaults ==
    (greetCall = "done" /\ greetOutcome.key /\ Malformed(greetOutcome.out))
        => greetings = Defaults

GreetingCount == Len(greetings.items)

ShortStringList ==
    IsStringList(greetings) /\ 1 <= GreetingCount /\ GreetingCount < CARD_COUNT

\* C9 as stated: with a list of L strings, 1 <= L < M, card i binds
\* greetings[i mod L].
C9_CardBindsEntry ==
    ShortStringList
        => \A i \in Cards : cardTexts[i] = greetings.items[(i % GreetingCount) + 1]

\* C9 amended: with a list of L strings, 1 <= L < M, card i binds
\* greetings[i mod L] when that string is not empty, and the fallback literal
\* when it is; for L = 5 and M = 16 card 7 is bound from greetings[2].
C9_CardBindsNonEmptyEntry ==
    ShortStringList
        => /\ \A i \in Cards :
                LET e == greetings.items[(i % GreetingCount) + 1]
                IN cardTexts[i] = IF e = Empty THEN Fallback ELSE e
           /\ (GreetingCount = 5 /\ CARD_COUNT = 16)
                => cardTexts[7] = IF greetings.items[3] = Empty
                                  THEN Fallback ELSE greetings.items[3]

\* C9 witness: five strings, and card 7 shows the third.
C9_Witness ==
    /\ greetings = List(<<A, A, B, A, A>>)
    /\ cardTexts[7] = B
    /\ cardTexts[5] = A

\* C10 as stated: while the list is empty every card binds the fallback
\* literal, and once a non-empty list of strings has arrived card i binds
\* greetings[i mod L].
C10_FallbackThenEntry ==
    /\ (greetCall = "pending" \/ greetings = List(<<>>))
            => \A i \in Cards : cardTexts[i] = Fallback
    /\ (IsStringList(greetings) /\ greetings # List(<<>>))
            => \A i \in Cards : cardTexts[i] = JsIndex(greetings, JsMod(i, JsLength(greetings)))

\* C10 amended: while the list is empty every card binds the fallback literal,
\* and once a value has arrived card i binds greetings[i mod L] when that entry
\* is truthy (a non-empty string) and the fallback literal when it is not.
C10_FallbackThenTruthyEntry ==
    /\ (greetCall = "pending" \/ greetings = List(<<>>))
            => \A i \in Cards : cardTexts[i] = Fallback
    /\ greetings # List(<<>>)
            => \A i \in Cards :
                  LET e == JsIndex(greetings, JsMod(i, JsLength(greetings)))
                  IN cardTexts[i] = IF Truthy(e) THEN e ELSE Fallback

\* C10 witness: a list with an empty string has arrived and is on the cards.
C10_Witness ==
    /\ greetCall = "done"
    /\ greetings = List(<<A, Empty, B>>)
    /\ cardTexts[3] = A
    /\ cardTexts[4] = Fallback
    /\ cardTexts[5] = B

\* C11: with y the needle's sampled height, in [0, 18], before the offset that
\* centres the cone, the assembled position lies no farther from the axis than
\* 7 * (1 - y / 18), to within 1/256 (the rounding of the fixed-point products
\* and sines).
C11_NeedleInsideCone ==
    LET y == needle.target.y + 9 * SCALE - 2 * SCALE
        x == needle.target.x
        z == needle.target.z
        bound == (SCALE - y \div 18) * 7 + SCALE \div 256
    IN /\ 0 <= y /\ y <= 18 * SCALE
       /\ x * x + z * z <= bound * bound

\* C11 witness: a needle at half height on the rim of the cone, 3.5 from the axis.
C11_Witness ==
    /\ needle.target.y = 2 * SCALE
    /\ needle.target.x * needle.target.x + needle.target.z * needle.target.z
            >= ((34 * SCALE) \div 10) * ((34 * SCALE) \div 10)

\* C12: the eased value of the items (smoothT, of the progress they read) and
\* of the shader (easeOutCubic of the uProgress uniform) is 0 at 0 and 1 at 1,
\* and from one frame to the next, both inputs in [0, 1], it does not fall
\* when the input does not fall and does not rise when the input does not rise.
C12_EaseOutBoundsAndOrder ==
    [][/\ (itemT' = 0 => smoothT' = 0)
       /\ (itemT' = SCALE => smoothT' = SCALE)
       /\ (uProgress' = 0 => easeOutCubic(uProgress') = 0)
       /\ (uProgress' = SCALE => easeOutCubic(uProgress') = SCALE)
       /\ (0 <= itemT /\ itemT <= itemT' /\ itemT' <= SCALE) => smoothT <= smoothT'
       /\ (0 <= itemT' /\ itemT' <= itemT /\ itemT <= SCALE) => smoothT' <= smoothT
       /\ (0 <= uProgress /\ uProgress <= uProgress' /\ uProgress' <= SCALE)
              => easeOutCubic(uProgress) <= easeOutCubic(uProgress')
       /\ (0 <= uProgress' /\ uProgress' <= uProgress /\ uProgress <= SCALE)
              => easeOutCubic(uProgress') <= easeOutCubic(uProgress)]_vars

\* C12 witness: on the way from 0 to 1 the items read a progress strictly
\* between the two and eased it to a larger value below 1.
C12_Witness ==
    /\ runStart = 0
    /\ runTarget = SCALE
    /\ 0 < itemT /\ itemT < smoothT /\ smoothT < SCALE
    /\ itemT < uProgress

\* a render frame that follows another
NextFrame == frames >= 1 /\ frames' = frames + 1

\* C13 as stated: two frames with the same (dispersed position, assembled
\* position, eased) give an item the same position, whatever the clock time.
C13_PositionFromTripleOnly ==
    [][(NextFrame /\ smoothT' = smoothT) => itemPos' = itemPos]_vars

\* C13 amended: two frames with the same (dispersed position, assembled
\* position, eased) and, when the progress they read is above 0.9, the same
\* clock time give an item the same position, whatever frames came before.
C13_PositionFromTripleAndClock ==
    [][(NextFrame /\ smoothT' = smoothT /\ (Wobbles(itemT') => clock' = clock))
            => itemPos' = itemPos]_vars

\* C13 witness: a frame of no elapsed time read the progress 1.5 that the frame
\* before had left, above 0.9, and moved the card off the interpolated position.
C13_Witness ==
    /\ frames = 3
    /\ lastDt = 0
    /\ itemT = progress
    /\ Wobbles(itemT)
    /\ itemPos["card"] # LerpVectors(itemData["card"].chaos, itemData["card"].target, smoothT)

\* C14: the progress changes only in the integrator's step of a render frame,
\* where it becomes the integrator's value; every other step (a sample of the
\* hand controller, a mouse move, the camera check, the greetings, the
\* teardown) leaves it as it is, and so do the items, the material and the
\* camera rig in their part of the frame.
C14_OnlyIntegratorWritesProgress ==
    [][progress' = IF frames' = frames + 1
                   THEN IntegratorStep(progress, Target, lastDt')
                   ELSE progress]_vars

\* C14 witness: after a frame toward 1 the pointer moved to the edge and set
\* the target to 0; the progress is still the value the integrator wrote.
C14_Witness ==
    /\ lastSignal = "mouse"
    /\ Target = 0
    /\ runTarget = SCALE
    /\ frames >= 1
    /\ progress > 0
    /\ progress = uProgress

\* C15: after every rendered frame the uProgress uniform and the progress the
\* items read in that frame are both the value the integrator wrote in it.
C15_FrameCoherent ==
    frames >= 1 => (uProgress = progress /\ itemT = progress)

\* C16: once the view is torn down the polling timer is stopped, and from then
\* on no sample of the hand controller changes unleashed or cameraDelta.
C16_TeardownStopsPolling ==
    [][/\ ~mounted' => ~timerArmed'
       /\ ~mounted => (unleashed' = unleashed /\ cameraDelta' = cameraDelta
                        /\ lastSignal' = lastSignal)]_vars

\* C16 witness: the timer ran and delivered an open hand, then the view was
\* torn down.
C16_Witness ==
    /\ ~mounted
    /\ ~timerArmed
    /\ hasCameraPermission
    /\ lastSignal = "open"
    /\ unleashed

\* v lies between a and b, to within the rounding of two fixed-point products
Between(v, a, b) ==
    /\ (IF a < b THEN a ELSE b) - 2 <= v
    /\ v <= (IF a < b THEN b ELSE a) + 2

\* C17: in every frame the new camera x lies between the previous camera x and
\* the target cameraDelta.x * 6, and the new camera y between the previous
\* camera y and the target 3 + cameraDelta.y * 4.
C17_CameraTowardTarget ==
    [][frames' = frames + 1
        => /\ Between(camera'.x, camera.x, cameraDelta.x * 6)
           /\ Between(camera'.y, camera.y, 3 * SCALE + cameraDelta.y * 4)]_vars

\* the interpolation between an item's dispersed and assembled positions
Interpolated(k) == LerpVectors(itemData[k].chaos, itemData[k].target, smoothT)

\* the interpolation with the oscillation added to y
Oscillating(k) ==
    [Interpolated(k) EXCEPT !.y = @ + Mul(Sin((clock * 2 * SCALE) \div TicksPerSecond
                                                + itemData[k].chaos.x),
                                          (2 * SCALE) \div 1000)]

\* C18 as stated: the oscillation is applied in a frame if and only if the
\* eased progress of the frame is above 0.9, and with eased <= 0.9 every item
\* is exactly at the interpolation.
C18_OscillatesIffEasedHigh ==
    frames >= 1
        => /\ oscillated <=> smoothT * 10 > 9 * SCALE
           /\ \A k \in Items :
                 itemPos[k] = IF smoothT * 10 > 9 * SCALE THEN Oscillating(k)
                              ELSE Interpolated(k)

\* C18 amended: the oscillation is applied in a frame if and only if the
\* progress the frame reads, before easing, is above 0.9; with progress <= 0.9,
\* and so whenever eased <= 0.9, every item is exactly at the interpolation.
C18_OscillatesIffProgressHigh ==
    frames >= 1
        => /\ oscillated <=> itemT * 10 > 9 * SCALE
           /\ \A k \in Items :
                 itemPos[k] = IF itemT * 10 > 9 * SCALE THEN Oscillating(k)
                              ELSE Interpolated(k)
           /\ smoothT * 10 <= 9 * SCALE => \A k \in Items : itemPos[k] = Interpolated(k)

\* C18 witness: a frame read the progress 0.75, eased to 0.98, and left the
\* ornament at the interpolation, where the oscillation would have moved it.
C18_Witness ==
    /\ frames >= 1
    /\ itemT * 4 = 3 * SCALE
    /\ smoothT * 10 > 9 * SCALE
    /\ ~oscillated
    /\ itemPos["ornament"] = Interpolated("ornament")
    /\ Oscillating("ornament") # Interpolated("ornament")

\* (1 - e) * a + e * b
Mix(a, b, e) == Mul(a, SCALE - e) + Mul(b, e)

\* the card's rotation at the eased fraction e: component by component, from
\* a tenth of its dispersed position to its assembled rotation
CardRotationAt(e) ==
    LET c == itemData["card"].chaos
        r == itemData["card"].finalRotation
    IN Vec(Mix(c.x \div 10, r.x, e), Mix(c.y \div 10, r.y, e), Mix(c.z \div 10, r.z, e))

\* C19: the rotation a frame sets on an item that has an assembled rotation
\* (the card) is the component-wise interpolation, by the eased fraction, from
\* an orientation that depends on the item alone to the assembled rotation: a
\* frame with the eased value of the frame before sets the same rotation, and
\* at eased = 1 the rotation is the assembled rotation.
C19_RotationFromFixedOrientation ==
    [][frames' = frames + 1
        => /\ itemRot'["card"] = CardRotationAt(smoothT')
           /\ (frames >= 1 /\ smoothT' = smoothT) => itemRot'["card"] = itemRot["card"]
           /\ smoothT' = SCALE => itemRot'["card"] = itemData["card"].finalRotation]_vars

\* C19 witness: a frame read the progress 1 and set the last card's rotation
\* to its assembled rotation, away from the orientation it started from.
C19_Witness ==
    /\ frames >= 2
    /\ itemT = SCALE
    /\ smoothT = SCALE
    /\ itemRot["card"] = itemData["card"].finalRotation
    /\ itemRot["card"] # CardRotationAt(0)
    /\ itemData["card"].finalRotation.y # HalfPi

\* C20: no step after construction (a render frame, a signal event, the
\* greetings, the camera check, the teardown) changes the needle's assembled
\* position, dispersed position or random phase, or an item's dispersed
\* position, assembled position or assembled rotation; and a render frame
\* changes nothing but the items' transforms, the progress, the uniforms, the
\* group's rotation, the camera and the clock.
C20_GeometryImmutable ==
    [][/\ needle' = needle
       /\ itemData' = itemData
       /\ frames' = frames + 1 => UNCHANGED <<appVars, viewVars>>]_vars

\* C20 witness: frames have run, a hand was seen, the greetings arrived, the
\* card has been moved, and the geometry is what construction generated.
C20_Witness ==
    /\ frames >= 2
    /\ lastSignal = "open"
    /\ greetCall = "done"
    /\ itemPos["card"] # Origin
    /\ needle = Needle(SomeDraws.needle)
    /\ itemData["card"] = Card(7, SomeDraws.card)
    /\ itemData["ornament"] = Ornament(SomeDraws.ornament)

\* C21: the hand controller's timer runs only with camera permission granted
\* and mouse fallback off, never together with mouse fallback; and a step that
\* changes unleashed or cameraDelta is a mouse move made with mouse fallback on
\* and no hand controller, or a sample of the hand controller made with camera
\* permission granted and mouse fallback off.
C21_OneSignalSource ==
    [][/\ ~(timerArmed' /\ useMouseFallback')
       /\ timerArmed' => hasCameraPermission'
       /\ (unleashed' # unleashed \/ cameraDelta' # cameraDelta)
            => IF lastSignal' = "mouse"
               THEN useMouseFallback /\ ~timerArmed
               ELSE timerArmed /\ hasCameraPermission /\ ~useMouseFallback]_vars

\* C21 witness: the camera was denied and a mouse move at the edge of the
\* window unleashed the scene, with no hand controller.
C21_Witness ==
    /\ camCheck = "done"
    /\ useMouseFallback
    /\ ~hasCameraPermission
    /\ ~timerArmed
    /\ lastSignal = "mouse"
    /\ unleashed
    /\ mounted

\* C22: at any moment at most one polling timer of the HandController is
\* running, and none that holds a processFrame of an earlier render: across
\* the renders that recreate processFrame (the greetings arriving, a sample
\* that moves the camera offset or flips unleashed) the effect's cleanup clears
\* the previous timer before the next setInterval, so timers never accumulate
\* and no tick runs a stale callback beside the current one.
C22_OneTimerNeverStale ==
    /\ intervals.current + intervals.stale <= 1
    /\ intervals.stale = 0
    /\ intervals.current = 1 => hasCameraPermission

\* the HandController after renders that recreated processFrame: the greetings
\* arrived and a sample of an open hand was taken, one timer running
C22_Witness ==
    /\ mounted
    /\ HandControllerMounted
    /\ greetCall = "done"
    /\ lastSignal = "open"
    /\ unleashed
    /\ cameraDelta # [x |-> 0, y |-> 0]
    /\ intervals = [current |-> 1, stale |-> 0]

====
